---- MODULE Spec2Model ----
(***************************************************************************)
(* Typed event registry and dispatch of tauri-specta (src/src/event.rs).   *)
(*                                                                         *)
(* Strings are sequences of one-character strings, so that the wire-name   *)
(* is a real concatenation.  A panic is recorded in `result` (outcome      *)
(* "panic" and the panic message); shared state keeps the value it had     *)
(* when the panic was raised.                                              *)
(*                                                                         *)
(* An EventCollection is a local value of the thread that builds it (the   *)
(* collect_events! expression creates it and registers into it; the        *)
(* plugin setup then moves it into register_collection).  Its steps        *)
(* commute with every operation of the other threads, which neither read   *)
(* nor write it, so the model runs the other threads' operations only      *)
(* between two constructions (building = "none").                          *)
(*                                                                         *)
(* Spec is the program with every operation as one step.  SpecDelivery is  *)
(* the listener table after setup, with the adapters of make_handler!      *)
(* invoked on raw deliveries.  SpecLock is the registry at the level of    *)
(* its RwLock, with merges and lookups split into their steps.             *)
(***************************************************************************)
EXTENDS Integers, Sequences, FiniteSets, TLC

\* ------------------------------------------------------------------ bounds
MaxListeners == 1
MaxStrLen == 1

\* ------------------------------------------------------- event types, names
\* Three event types (SpectaID 1..3).  Types 1 and 2 are two declarations
\* with the same NAME and the same shape (one struct name in two modules);
\* type 3 has its own name.
Types == {1, 2, 3}

NAME(t) == IF t = 3 THEN <<"e">> ELSE <<"u">>

\* Shape of the payload: a newtype over String (DemoEvent) or a unit struct
\* (EmptyEvent).
KIND(t) == IF t = 3 THEN "unit" ELSE "newtype_string"

Chars == {"a"}

Strings == UNION {[1..n -> Chars] : n \in 0..MaxStrLen}

\* Typed payload values of an event type.
Values(t) ==
    IF KIND(t) = "newtype_string"
    THEN {[k |-> "newtype_string", s |-> x] : x \in Strings}
    ELSE {[k |-> "unit", s |-> <<>>]}

\* PluginName: None for the host application, Some(name) for a plugin.
None == [some |-> FALSE, name |-> <<>>]

Some(n) == [some |-> TRUE, name |-> n]

PluginNames == {None, Some(<<"p">>)}

Callers == {1, 2}

Labels == {"main"}

\* ---------------------------------------------------------------- state
VARIABLES
    collection,   \* EventCollection under construction: [sids, names]
    building,     \* "none" | "open" | "aborted": life of `collection`
    managed,      \* try_state::<EventRegistry>() is Some
    instance,     \* number of EventRegistry values installed by manage()
    registry,     \* EventRegistry.0: SpectaID -> EventRegistryMeta
    gpc,          \* position of each caller inside get_or_manage
    listeners,    \* listener id -> [wire, ty, once]
    nextId,       \* next EventId handed out by the framework
    result,       \* outcome of the last operation
    rw,           \* the RwLock of EventRegistry: [writers, readers] holding it
    mergers,      \* threads inside register_collection: [pc, sids, todo, plugin_name]
    lookups       \* threads inside get_meta_from_registry: [pc, ty]

vars == <<collection, building, managed, instance, registry, gpc, listeners,
          nextId, result, rw, mergers, lookups>>

\* The variables of the lock-level view of the registry (SpecLock below).
locking == <<rw, mergers, lookups>>

Mergers == {"m1", "m2"}

Dispatchers == {"d1", "d2"}

EmptyMap == [x \in {} |-> None]

NoDiag == [fmt |-> "", arg |-> <<>>]

NoValue == [k |-> "none", s |-> <<>>]

\* Outcome of an operation: "ok", "err" (a tauri::Result error returned to the
\* caller) or "panic" with the panic message (format string and argument).
\* handle: the registry instance get_or_manage returned; id: the EventId a
\* listen returned; wire: the wire-name given to the framework; value: the
\* event an emit sent; raw: the payload text of a raw delivery; deliveries:
\* the handler invocations it caused.
Res(outcome, diag) ==
    [outcome |-> outcome, diag |-> diag, handle |-> 0, id |-> 0, wire |-> <<>>,
     value |-> NoValue, raw |-> <<>>, deliveries |-> {}]

Ok == Res("ok", NoDiag)

Panic(fmt, arg) == Res("panic", [fmt |-> fmt, arg |-> arg])

IdleMerge == [pc |-> "idle", sids |-> {}, todo |-> {}, plugin_name |-> None]

IdleLookup == [pc |-> "idle", ty |-> 0]

InitLocking ==
    /\ rw = [writers |-> {}, readers |-> {}]
    /\ mergers = [w \in Mergers |-> IdleMerge]
    /\ lookups = [d \in Dispatchers |-> IdleLookup]

Init ==
    /\ InitLocking
    /\ collection = [sids |-> {}, names |-> {}]
    /\ building = "none"
    /\ managed = FALSE
    /\ instance = 0
    /\ registry = EmptyMap
    /\ gpc = [c \in Callers |-> "idle"]
    /\ listeners = EmptyMap
    /\ nextId = 1
    /\ result = Ok

\* ------------------------------------------------------- EventCollection
\* EventCollection::default()
NewCollection ==
    /\ building = "none"
    /\ collection' = [sids |-> {}, names |-> {}]
    /\ building' = "open"
    /\ result' = Ok
    /\ UNCHANGED <<managed, instance, registry, gpc, listeners, nextId, locking>>

\* register without the test of the logical name.
register_without_name_test(t) ==
    /\ building = "open"
    /\ IF t \in collection.sids
       THEN /\ collection' = collection
            /\ building' = "aborted"
            /\ result' = Panic("Event {} registered twice!", NAME(t))
       ELSE /\ collection' = [sids |-> collection.sids \cup {t},
                              names |-> collection.names \cup {NAME(t)}]
            /\ building' = "open"
            /\ result' = Ok
    /\ UNCHANGED <<managed, instance, registry, gpc, listeners, nextId, locking>>

\* EventCollection::register::<E>(): BTreeSet::insert returns false when the
\* element is already there; the SID is inserted before the NAME is tested.
register(t) ==
    /\ building = "open"
    /\ IF t \in collection.sids
       THEN /\ collection' = collection
            /\ building' = "aborted"
            /\ result' = Panic("Event {} registered twice!", NAME(t))
       ELSE IF NAME(t) \in collection.names
       THEN /\ collection' = [collection EXCEPT !.sids = @ \cup {t}]
            /\ building' = "aborted"
            /\ result' = Panic("Another event with name {} is already registered!",
                            NAME(t))
       ELSE /\ collection' = [sids |-> collection.sids \cup {t},
                              names |-> collection.names \cup {NAME(t)}]
            /\ building' = "open"
            /\ result' = Ok
    /\ UNCHANGED <<managed, instance, registry, gpc, listeners, nextId, locking>>

\* The panic of register unwinds the building thread, which drops its local
\* collection.
unwind ==
    /\ building = "aborted"
    /\ collection' = [sids |-> {}, names |-> {}]
    /\ building' = "none"
    /\ UNCHANGED <<managed, instance, registry, gpc, listeners, nextId, result, locking>>

\* --------------------------------------------------------- EventRegistry
EventRegistryMeta(plugin_name) == [plugin_name |-> plugin_name]

\* extend as a map that keeps the entries it already has.
extend_keeps_old(map, keys, meta) ==
    [s \in (DOMAIN map) \cup keys |-> IF s \in DOMAIN map THEN map[s] ELSE meta]

\* extend as an assignment of the new entries (*registry = iter.collect()).
extend_replaces_map(map, keys, meta) == [s \in keys |-> meta]

\* BTreeMap::extend: inserts every (key, value) pair of the iterator; a key
\* that is already in the map gets the new value.
extend(map, keys, meta) ==
    [s \in (DOMAIN map) \cup keys |-> IF s \in keys THEN meta ELSE map[s]]

\* EventRegistry::register_collection(self, collection, plugin_name): takes
\* the write lock for the whole body and extends the map with
\* (sid, EventRegistryMeta { plugin_name }) for every sid of the collection.
\* The collection is moved into the call.
register_collection(plugin_name) ==
    /\ managed
    /\ building = "open"
    /\ registry' = extend(registry, collection.sids, EventRegistryMeta(plugin_name))
    /\ collection' = [sids |-> {}, names |-> {}]
    /\ building' = "none"
    /\ result' = Ok
    /\ UNCHANGED <<managed, instance, gpc, listeners, nextId, locking>>

\* manage that replaces a state that is already managed.
manage_replaces(m, i, r) == <<TRUE, i + 1, EmptyMap>>

\* Manager::manage(state): installs the state unless a state of that type
\* is already managed, in which case the existing one is kept.
\* <<managed, instance, registry>> after the call.
manage(m, i, r) ==
    IF m THEN <<m, i, r>> ELSE <<TRUE, i + 1, EmptyMap>>

\* get_or_manage, first statement: handle.try_state::<Self>().is_none().
\* When the state is there the function goes on to handle.state::<Self>(),
\* a read of the managed state, and returns it.
get_or_manage_check(c) ==
    /\ building = "none"
    /\ gpc[c] = "idle"
    /\ IF managed
       THEN /\ gpc' = gpc
            /\ result' = [Ok EXCEPT !.handle = instance]
       ELSE /\ gpc' = [gpc EXCEPT ![c] = "manage"]
            /\ result' = Ok
    /\ UNCHANGED <<collection, building, managed, instance, registry, listeners,
                   nextId, locking>>

\* get_or_manage, after try_state() was None: handle.manage(Self::default())
\* and then handle.state::<Self>().
get_or_manage_manage(c) ==
    /\ building = "none"
    /\ gpc[c] = "manage"
    /\ LET after == manage(managed, instance, registry)
       IN  /\ managed' = after[1]
           /\ instance' = after[2]
           /\ registry' = after[3]
           /\ result' = [Ok EXCEPT !.handle = after[2]]
    /\ gpc' = [gpc EXCEPT ![c] = "idle"]
    /\ UNCHANGED <<collection, building, listeners, nextId, locking>>

\* ------------------------------------------------------ wire-name resolver
SEP == ":"

\* PluginName::apply_as_prefix(input, ItemType::Event): the logical name for
\* the host application; plugin name, separator, logical name for a plugin.
apply_as_prefix(plugin_name, input) ==
    IF plugin_name.some THEN plugin_name.name \o <<SEP>> \o input ELSE input

\* wrap_with_plugin that prefixes for the host application too.
wrap_always_prefixes(meta, input) == meta.plugin_name.name \o <<SEP>> \o input

\* wrap_with_plugin that ignores the owner.
wrap_ignores_plugin(meta, input) == input

\* wrap_with_plugin that puts the plugin name after the logical name.
wrap_appends_plugin(meta, input) ==
    IF meta.plugin_name.some THEN input \o <<SEP>> \o meta.plugin_name.name ELSE input

\* EventRegistryMeta::wrap_with_plugin(&self, input)
wrap_with_plugin(meta, input) == apply_as_prefix(meta.plugin_name, input)

MsgNoRegistry ==
    "EventRegistry not found in Tauri state - Did you forget to call Exporter::with_events?"

MsgNotFound == "Event {name} not found in registry!"

\* get_meta_from_registry with unwrap_or_default() on the lookup.
get_meta_or_default(sid, name) ==
    IF ~managed
    THEN [ok |-> FALSE, meta |-> EventRegistryMeta(None),
          diag |-> [fmt |-> MsgNoRegistry, arg |-> <<>>]]
    ELSE IF sid \notin DOMAIN registry
    THEN [ok |-> TRUE, meta |-> EventRegistryMeta(None), diag |-> NoDiag]
    ELSE [ok |-> TRUE, meta |-> registry[sid], diag |-> NoDiag]

\* get_meta_from_registry(sid, name, handle): try_state().expect(..), then
\* a read-locked lookup of sid, .copied().unwrap_or_else(|| panic!(..)).
get_meta_from_registry(sid, name) ==
    IF ~managed
    THEN [ok |-> FALSE, meta |-> EventRegistryMeta(None),
          diag |-> [fmt |-> MsgNoRegistry, arg |-> <<>>]]
    ELSE IF sid \notin DOMAIN registry
    THEN [ok |-> FALSE, meta |-> EventRegistryMeta(None),
          diag |-> [fmt |-> MsgNotFound, arg |-> name]]
    ELSE [ok |-> TRUE, meta |-> registry[sid], diag |-> NoDiag]

\* get_meta!(handle): get_meta_from_registry(Self::SID, Self::NAME, handle)
get_meta(t) == get_meta_from_registry(t, NAME(t))

\* --------------------------------------------------- structured-data codec
Null == [k |-> "null", s |-> <<>>]

QUOTE == "\""

\* serde_json::to_value of an event: a newtype struct serializes as its
\* field, a unit struct as null.
to_value(v) ==
    IF v.k = "newtype_string" THEN [k |-> "string", s |-> v.s] ELSE Null

\* serde_json text of a structured value (the characters of Chars need no
\* escaping).
to_string(j) ==
    IF j.k = "string" THEN <<QUOTE>> \o j.s \o <<QUOTE>> ELSE <<"n", "u", "l", "l">>

\* serde_json::from_str::<Value>(raw)
from_str(raw) ==
    IF raw = <<"n", "u", "l", "l">>
    THEN [ok |-> TRUE, json |-> Null]
    ELSE IF /\ Len(raw) >= 2
            /\ raw[1] = QUOTE
            /\ raw[Len(raw)] = QUOTE
            /\ \A i \in 2..(Len(raw) - 1) : raw[i] \in Chars
    THEN [ok |-> TRUE, json |-> [k |-> "string", s |-> SubSeq(raw, 2, Len(raw) - 1)]]
    ELSE [ok |-> FALSE, json |-> Null]

\* serde_json::from_value::<E>(value)
from_value(t, j) ==
    IF KIND(t) = "newtype_string"
    THEN IF j.k = "string"
         THEN [ok |-> TRUE, value |-> [k |-> "newtype_string", s |-> j.s]]
         ELSE [ok |-> FALSE, value |-> NoValue]
    ELSE IF j.k = "null"
         THEN [ok |-> TRUE, value |-> [k |-> "unit", s |-> <<>>]]
         ELSE [ok |-> FALSE, value |-> NoValue]

\* make_handler! with from_str(..).expect(..) in place of
\* .ok().unwrap_or(Value::Null).
make_handler_propagates_parse(t, id, raw) ==
    LET parsed == from_str(raw)
        typed == from_value(t, parsed.json)
    IN  IF parsed.ok /\ typed.ok
        THEN [id |-> id, outcome |-> "handled", payload |-> typed.value]
        ELSE [id |-> id, outcome |-> "panic", payload |-> NoValue]

\* make_handler!(handler) applied to one raw delivery for a listener of type
\* t with identifier id: a payload that does not parse becomes Value::Null;
\* from_value(..).expect(..) panics, otherwise the handler gets
\* TypedEvent { id, payload }.
make_handler(t, id, raw) ==
    LET parsed == from_str(raw)
        value == IF parsed.ok THEN parsed.json ELSE Null
        typed == from_value(t, value)
    IN  IF typed.ok
        THEN [id |-> id, outcome |-> "handled", payload |-> typed.value]
        ELSE [id |-> id, outcome |-> "panic", payload |-> NoValue]

\* Raw payloads a delivery can carry: the serialized events, and a text that
\* is no structured value.
MALFORMED == <<"{">>

RawPayloads ==
    {to_string(to_value(v)) : v \in UNION {Values(t) : t \in Types}} \cup {MALFORMED}

\* ------------------------------------------------------ dispatch facade
\* The application of the model has one window (Labels), so an emission to
\* every target, to that label or to that window reaches every listener of
\* its wire-name, whether subscribed on the handle or on the window.
\* Emit that unwraps the framework's result instead of returning it.
Emit_unwraps(t, v, delivered) ==
    LET m == get_meta(t)
        wire == wrap_with_plugin(m.meta, NAME(t))
        raw == to_string(to_value(v))
        hit == {id \in DOMAIN listeners :
                  listeners[id].wire = wire}
    IN  /\ building = "none"
        /\ IF ~m.ok
           THEN /\ delivered
                /\ result' = Res("panic", m.diag)
                /\ listeners' = listeners
           ELSE IF ~delivered
           THEN /\ result' = Panic("called Result::unwrap() on an Err value", <<>>)
                /\ listeners' = listeners
           ELSE /\ result' = [Ok EXCEPT
                                !.wire = wire, !.value = v,
                                !.deliveries =
                                    {make_handler(listeners[id].ty, id, raw) : id \in hit}]
                /\ listeners' = [id \in {x \in DOMAIN listeners :
                                            ~(x \in hit /\ listeners[x].once)}
                                  |-> listeners[id]]
        /\ UNCHANGED <<collection, building, managed, instance, registry, gpc,
                       nextId, locking>>

\* Emit after which the framework keeps the once-listeners it has served.
Emit_keeps_once(t, v, delivered) ==
    LET m == get_meta(t)
        wire == wrap_with_plugin(m.meta, NAME(t))
        raw == to_string(to_value(v))
        hit == {id \in DOMAIN listeners :
                  listeners[id].wire = wire}
    IN  /\ building = "none"
        /\ IF ~m.ok
           THEN /\ delivered
                /\ result' = Res("panic", m.diag)
                /\ listeners' = listeners
           ELSE IF ~delivered
           THEN /\ result' = [Res("err", NoDiag) EXCEPT !.wire = wire,
                                                           !.value = v]
                /\ listeners' = listeners
           ELSE /\ result' = [Ok EXCEPT
                                !.wire = wire, !.value = v,
                                !.deliveries =
                                    {make_handler(listeners[id].ty, id, raw) : id \in hit}]
                /\ listeners' = listeners
        /\ UNCHANGED <<collection, building, managed, instance, registry, gpc,
                       nextId, locking>>

\* Shared body of emit_all / emit_to / emit: get_meta!, wrap_with_plugin and
\* the framework's emit of (wire-name, serialized payload), which invokes
\* the adapters of the listeners it reaches and drops the once-listeners it
\* has served.  delivered = FALSE: the framework returns an error (it has
\* nothing to return when the lookup panics before it is called).
Emit(t, v, delivered) ==
    LET m == get_meta(t)
        wire == wrap_with_plugin(m.meta, NAME(t))
        raw == to_string(to_value(v))
        hit == {id \in DOMAIN listeners :
                  listeners[id].wire = wire}
    IN  /\ building = "none"
        /\ IF ~m.ok
           THEN /\ delivered
                /\ result' = Res("panic", m.diag)
                /\ listeners' = listeners
           ELSE IF ~delivered
           THEN /\ result' = [Res("err", NoDiag) EXCEPT !.wire = wire,
                                                           !.value = v]
                /\ listeners' = listeners
           ELSE /\ result' = [Ok EXCEPT
                                !.wire = wire, !.value = v,
                                !.deliveries =
                                    {make_handler(listeners[id].ty, id, raw) : id \in hit}]
                /\ listeners' = [id \in {x \in DOMAIN listeners :
                                            ~(x \in hit /\ listeners[x].once)}
                                  |-> listeners[id]]
        /\ UNCHANGED <<collection, building, managed, instance, registry, gpc,
                       nextId, locking>>

emit_all(t, v, delivered) == Emit(t, v, delivered)

\* The closure built by make_handler!, invoked by the framework for one raw
\* delivery to listener id (an event emitted under its wire-name by the
\* other side of the process boundary).  The framework drops a once-listener
\* it has served.
MsgDeserialize == "Failed to deserialize event payload"

\* deliver in which an aborting invocation takes the listener table with it.
deliver_abort_tears_down(id, raw) ==
    /\ building = "none"
    /\ id \in DOMAIN listeners
    /\ LET d == make_handler(listeners[id].ty, id, raw)
       IN  /\ result' = [(IF d.outcome = "panic" THEN Panic(MsgDeserialize, <<>>) ELSE Ok)
                           EXCEPT !.wire = listeners[id].wire, !.raw = raw,
                                  !.deliveries = {d}]
           /\ listeners' =
                 IF d.outcome = "panic" THEN EmptyMap
                 ELSE [x \in {y \in DOMAIN listeners : ~(y = id /\ listeners[y].once)}
                         |-> listeners[x]]
    /\ UNCHANGED <<collection, building, managed, instance, registry, gpc, nextId, locking>>

deliver(id, raw) ==
    /\ building = "none"
    /\ id \in DOMAIN listeners
    /\ LET d == make_handler(listeners[id].ty, id, raw)
       IN  result' = [(IF d.outcome = "panic" THEN Panic(MsgDeserialize, <<>>) ELSE Ok)
                        EXCEPT !.wire = listeners[id].wire, !.raw = raw,
                               !.deliveries = {d}]
    /\ listeners' = [x \in {y \in DOMAIN listeners : ~(y = id /\ listeners[y].once)}
                      |-> listeners[x]]
    /\ UNCHANGED <<collection, building, managed, instance, registry, gpc, nextId, locking>>

emit_to(t, v, label, delivered) == label \in Labels /\ Emit(t, v, delivered)

emit(t, v, window, delivered) == window \in Labels /\ Emit(t, v, delivered)

\* Shared body of listen_any / once_any / listen / once: get_meta!,
\* wrap_with_plugin and the framework's subscription under the wire-name.
\* Subscribe whose lookup enters a default owner for a type id that is not
\* in the registry (entry(sid).or_default()).
Subscribe_enters_default(t, once, cap) ==
    LET meta == IF t \in DOMAIN registry THEN registry[t] ELSE EventRegistryMeta(None)
        wire == wrap_with_plugin(meta, NAME(t))
    IN  /\ building = "none"
        /\ IF ~managed
           THEN /\ result' = Panic(MsgNoRegistry, <<>>)
                /\ listeners' = listeners
                /\ nextId' = nextId
                /\ registry' = registry
           ELSE /\ nextId <= cap
                /\ result' = [Ok EXCEPT !.wire = wire, !.id = nextId]
                /\ listeners' =
                     [id \in DOMAIN listeners \cup {nextId} |->
                        IF id = nextId
                        THEN [wire |-> wire, ty |-> t, once |-> once]
                        ELSE listeners[id]]
                /\ nextId' = nextId + 1
                /\ registry' = extend(registry, {t} \ DOMAIN registry, meta)
        /\ UNCHANGED <<collection, building, managed, instance, gpc, locking>>

Subscribe(t, once, cap) ==
    LET m == get_meta(t)
        wire == wrap_with_plugin(m.meta, NAME(t))
    IN  /\ building = "none"
        /\ IF ~m.ok
           THEN /\ result' = Res("panic", m.diag)
                /\ listeners' = listeners
                /\ nextId' = nextId
           ELSE /\ nextId <= cap
                /\ result' = [Ok EXCEPT !.wire = wire, !.id = nextId]
                /\ listeners' =
                     [id \in DOMAIN listeners \cup {nextId} |->
                        IF id = nextId
                        THEN [wire |-> wire, ty |-> t, once |-> once]
                        ELSE listeners[id]]
                /\ nextId' = nextId + 1
        /\ UNCHANGED <<collection, building, managed, instance, registry, gpc, locking>>

Listen(t, once) == Subscribe(t, once, MaxListeners)

listen_any(t) == Listen(t, FALSE)

once_any(t) == Listen(t, TRUE)

listen(t, window) == window \in Labels /\ Listen(t, FALSE)

once(t, window) == window \in Labels /\ Listen(t, TRUE)

Next ==
    \/ NewCollection
    \/ \E t \in Types : register(t)
    \/ unwind
    \/ \E p \in PluginNames : register_collection(p)
    \/ \E c \in Callers : get_or_manage_check(c)
    \/ \E c \in Callers : get_or_manage_manage(c)
    \/ \E t \in Types, d \in BOOLEAN : \E v \in Values(t) : emit_all(t, v, d)
    \/ \E t \in Types, w \in Labels, d \in BOOLEAN : \E v \in Values(t) :
          emit_to(t, v, w, d)
    \/ \E t \in Types, w \in Labels, d \in BOOLEAN : \E v \in Values(t) :
          emit(t, v, w, d)
    \/ \E t \in Types : listen_any(t)
    \/ \E t \in Types : once_any(t)
    \/ \E t \in Types, w \in Labels : listen(t, w)
    \/ \E t \in Types, w \in Labels : once(t, w)

Spec == Init /\ [][Next]_vars

\* The listener table on its own: the application has finished its setup
\* (every event type merged, for the host or for plugin p) and from then on
\* subscribes, emits, and has its adapters invoked by the framework with raw
\* deliveries from the other side of the process boundary, with room for
\* one listener more than in Spec.
DeliveryListeners == MaxListeners + 1

InitDelivery ==
    /\ InitLocking
    /\ collection = [sids |-> {}, names |-> {}]
    /\ building = "none"
    /\ managed = TRUE
    /\ instance = 1
    /\ registry \in {[t \in Types |-> EventRegistryMeta(p)] : p \in PluginNames}
    /\ gpc = [c \in Callers |-> "idle"]
    /\ listeners = EmptyMap
    /\ nextId = 1
    /\ result = Ok

NextDelivery ==
    \/ \E t \in Types, o \in BOOLEAN : Subscribe(t, o, DeliveryListeners)
    \/ \E t \in Types, d \in BOOLEAN : \E v \in Values(t) : Emit(t, v, d)
    \/ \E id \in DOMAIN listeners, raw \in RawPayloads : deliver(id, raw)

SpecDelivery == InitDelivery /\ [][NextDelivery]_vars

\* ------------------------------------------------ the registry under its lock
\* register_collection and get_meta_from_registry step by step, with the
\* RwLock between them.  register_collection of Spec is merge_begin,
\* merge_write, one merge_insert for every type id and merge_return in one
\* step; the lookup inside Emit and Subscribe is lookup_begin, lookup_read and
\* lookup_get in one step.

\* The collections collect_events! can build: one event at least, and no
\* two events of one logical name (register).
Collections ==
    {S \in SUBSET Types : S # {} /\ \A a, b \in S : NAME(a) = NAME(b) => a = b}

\* register_collection is called by setup thread w with a collection of the
\* type ids sids, which is moved into the call.
merge_begin(w, plugin_name, sids) ==
    /\ managed
    /\ mergers[w].pc = "idle"
    /\ mergers' = [mergers EXCEPT ![w] =
                     [pc |-> "write", sids |-> sids, todo |-> sids,
                      plugin_name |-> plugin_name]]
    /\ UNCHANGED <<collection, building, managed, instance, registry, gpc,
                   listeners, nextId, result, rw, lookups>>

\* self.0.write(): returns once no other guard, read or write, is out.
merge_write(w) ==
    /\ mergers[w].pc = "write"
    /\ rw.writers = {} /\ rw.readers = {}
    /\ rw' = [rw EXCEPT !.writers = {w}]
    /\ mergers' = [mergers EXCEPT ![w].pc = "extend"]
    /\ UNCHANGED <<collection, building, managed, instance, registry, gpc,
                   listeners, nextId, result, lookups>>

\* registry.extend(..): one insert per type id, in the set's ascending order.
merge_insert(w) ==
    /\ mergers[w].pc = "extend"
    /\ mergers[w].todo # {}
    /\ LET sid == CHOOSE s \in mergers[w].todo : \A x \in mergers[w].todo : s <= x
       IN  /\ registry' = extend(registry, {sid},
                                 EventRegistryMeta(mergers[w].plugin_name))
           /\ mergers' = [mergers EXCEPT ![w].todo = @ \ {sid}]
    /\ UNCHANGED <<collection, building, managed, instance, gpc, listeners,
                   nextId, result, rw, lookups>>

\* register_collection returns: the write guard is dropped.  A setup thread
\* merges one collection.
merge_return(w) ==
    /\ mergers[w].pc = "extend"
    /\ mergers[w].todo = {}
    /\ rw' = [rw EXCEPT !.writers = @ \ {w}]
    /\ mergers' = [mergers EXCEPT ![w].pc = "done"]
    /\ result' = Ok
    /\ UNCHANGED <<collection, building, managed, instance, registry, gpc,
                   listeners, nextId, lookups>>

\* get_meta_from_registry is called for event type t: try_state().expect(..)
lookup_begin(d, t) ==
    /\ lookups[d].pc = "idle"
    /\ IF ~managed
       THEN /\ result' = Panic(MsgNoRegistry, <<>>)
            /\ lookups' = lookups
       ELSE /\ result' = result
            /\ lookups' = [lookups EXCEPT ![d] = [pc |-> "read", ty |-> t]]
    /\ UNCHANGED <<collection, building, managed, instance, registry, gpc,
                   listeners, nextId, rw, mergers>>

\* .0.read() that does not wait for a writer.
lookup_read_unlocked(d) ==
    /\ lookups[d].pc = "read"
    /\ rw' = [rw EXCEPT !.readers = @ \cup {d}]
    /\ lookups' = [lookups EXCEPT ![d].pc = "get"]
    /\ UNCHANGED <<collection, building, managed, instance, registry, gpc,
                   listeners, nextId, result, mergers>>

\* .0.read(): returns once no write guard is out; other read guards may be.
lookup_read(d) ==
    /\ lookups[d].pc = "read"
    /\ rw.writers = {}
    /\ rw' = [rw EXCEPT !.readers = @ \cup {d}]
    /\ lookups' = [lookups EXCEPT ![d].pc = "get"]
    /\ UNCHANGED <<collection, building, managed, instance, registry, gpc,
                   listeners, nextId, result, mergers>>

\* .get(&sid).copied().unwrap_or_else(|| panic!(..)): the read guard is a
\* temporary of this expression and is dropped when it ends, by return or by
\* unwinding.
lookup_get(d) ==
    /\ lookups[d].pc = "get"
    /\ LET t == lookups[d].ty
           m == get_meta(t)
       IN  result' = IF m.ok THEN Ok ELSE Res("panic", m.diag)
    /\ rw' = [rw EXCEPT !.readers = @ \ {d}]
    /\ lookups' = [lookups EXCEPT ![d] = IdleLookup]
    /\ UNCHANGED <<collection, building, managed, instance, registry, gpc,
                   listeners, nextId, mergers>>

\* The registry is managed and empty: get_or_manage has been called, no
\* collection has been merged yet.
InitLock ==
    /\ InitLocking
    /\ collection = [sids |-> {}, names |-> {}]
    /\ building = "none"
    /\ managed = TRUE
    /\ instance = 1
    /\ registry = EmptyMap
    /\ gpc = [c \in Callers |-> "idle"]
    /\ listeners = EmptyMap
    /\ nextId = 1
    /\ result = Ok

NextLock ==
    \/ \E w \in Mergers, p \in PluginNames, sids \in Collections :
          merge_begin(w, p, sids)
    \/ \E w \in Mergers : merge_write(w)
    \/ \E w \in Mergers : merge_insert(w)
    \/ \E w \in Mergers : merge_return(w)
    \/ \E d \in Dispatchers, t \in Types : lookup_begin(d, t)
    \/ \E d \in Dispatchers : lookup_read(d)
    \/ \E d \in Dispatchers : lookup_get(d)

SpecLock == InitLock /\ [][NextLock]_vars

\* -------------------------------------------------------------- properties
\* The step is a dispatch operation of event type t: an emit_all, emit_to or
\* emit (all three are Emit), a listen_any, once_any, listen or once (Listen).
\* (An Emit step of value v leaves v or, when it panics, no value in result,
\* and its outcome is "err" exactly when it got through the lookup and the
\* framework failed; it hands out no listener identifier.  A Listen step
\* hands one out or panics, and leaves no value.  A step that panics is the
\* same step for every value and for both kinds of subscription, so one of
\* them stands for all.)
EmitOn(t) ==
    /\ building = "none"
    /\ nextId' = nextId
    /\ \E v \in Values(t) :
          /\ \/ result'.value = v
             \/ /\ result'.value = NoValue /\ result'.outcome = "panic"
                /\ v = CHOOSE x \in Values(t) : TRUE
          /\ Emit(t, v, result'.outcome # "err")

ListenOn(t) ==
    /\ building = "none"
    /\ result'.value = NoValue
    /\ \E o \in BOOLEAN :
          /\ \/ result'.outcome = "panic" /\ o
             \/ /\ nextId \in DOMAIN listeners'
                /\ listeners'[nextId].once = o
          /\ Listen(t, o)

DispatchOn(t) == EmitOn(t) \/ ListenOn(t)

\* The step is a merge of the collection under construction.
Merge == \E p \in PluginNames : register_collection(p)

Resolved(t) == managed /\ t \in DOMAIN registry

\* The wire-name event type t resolves to in the current registry.
WireName(t) == wrap_with_plugin(registry[t], NAME(t))

\* C1: merging a collection aborts whenever one of its type ids is already in
\* the registry, and the entries written by earlier merges stay as they were.
C1_MergeOfPresentIdAborts ==
    [][(Merge /\ collection.sids \cap DOMAIN registry # {})
         => (result'.outcome = "panic" /\ registry' = registry)]_vars

\* C2: a type id mapped to a plugin identifier maps to the same plugin
\* identifier in every later state.
C2_OwnerNeverReassigned ==
    [][\A t \in DOMAIN registry :
          t \in DOMAIN registry' /\ registry'[t] = registry[t]]_vars

\* C7: a successful merge with plugin identifier p maps every type id of the
\* collection to p and leaves the entry (or absence) of every other type id
\* unchanged.
C7_MergeStampsCollectionOnly ==
    [][\A p \in PluginNames :
          register_collection(p) =>
            /\ result'.outcome = "ok"
            /\ \A t \in collection.sids :
                  t \in DOMAIN registry' /\ registry'[t] = EventRegistryMeta(p)
            /\ \A t \in Types \ collection.sids :
                  /\ (t \in DOMAIN registry') = (t \in DOMAIN registry)
                  /\ t \in DOMAIN registry => registry'[t] = registry[t]]_vars

\* A merge has stamped type 1 for plugin p after type 3 was stamped for the
\* host by another merge (types 1 and 3 merged together would share an owner).
C7_Witness ==
    /\ Resolved(1) /\ Resolved(3)
    /\ registry[1] = EventRegistryMeta(Some(<<"p">>))
    /\ registry[3] = EventRegistryMeta(None)

\* C5: register aborts when the type id or the logical name is already in the
\* collection and succeeds otherwise; in a collection under construction no
\* two type ids share a logical name and the two sets describe the same events.
C5_RegisterStep ==
    \A t \in Types :
        register(t) =>
            IF t \in collection.sids \/ NAME(t) \in collection.names
            THEN result'.outcome = "panic" /\ building' = "aborted"
            ELSE /\ result'.outcome = "ok"
                 /\ building' = "open"
                 /\ collection'.sids = collection.sids \cup {t}
                 /\ collection'.names = collection.names \cup {NAME(t)}

C5_NoDuplicates ==
    building = "open" =>
        /\ \A t1, t2 \in collection.sids : NAME(t1) = NAME(t2) => t1 = t2
        /\ collection.names = {NAME(t) : t \in collection.sids}

C5_RegisterRejectsDuplicates == []C5_NoDuplicates /\ [][C5_RegisterStep]_vars

\* Two events were registered, and a further register was rejected for its name.
C5_Witness ==
    /\ building = "aborted"
    /\ {1, 3} \subseteq collection.sids
    /\ result.diag.fmt = "Another event with name {} is already registered!"

\* C8: get_or_manage never fails; the registry it installs is empty; once a
\* registry exists it stays the same instance, and a get_or_manage step taken
\* while it exists returns it and leaves its contents unchanged.
C8_GetOrManageStep ==
    /\ managed => (managed' /\ instance' = instance)
    /\ \A c \in Callers :
          (get_or_manage_check(c) \/ get_or_manage_manage(c)) =>
             /\ result'.outcome = "ok"
             /\ managed => registry' = registry
             /\ (~managed /\ managed') => (registry' = EmptyMap /\ instance' = 1)
             /\ gpc'[c] = "idle" => (managed' /\ result'.handle = instance')

C8_GetOrManageIdempotent ==
    [](managed = (instance = 1) /\ instance \in {0, 1}) /\ [][C8_GetOrManageStep]_vars

\* A get_or_manage returned the registry while it held merged entries.
C8_Witness == managed /\ result.handle = 1 /\ DOMAIN registry # {}

\* C3: any two distinct event types of the registry resolve to different
\* wire-names.
C3_WireNamesGloballyUnique ==
    \A t1, t2 \in DOMAIN registry : t1 # t2 => WireName(t1) # WireName(t2)

\* C3, amended: two distinct event types of the registry resolve to different
\* wire-names when they differ in owner or in logical name, and the types of
\* one collection do so from the merge on.
C3_DistinctOwnerOrName ==
    \A t1, t2 \in DOMAIN registry :
        (t1 # t2 /\ (registry[t1] # registry[t2] \/ NAME(t1) # NAME(t2)))
            => WireName(t1) # WireName(t2)

C3_MergedTogether ==
    Merge => \A t1, t2 \in collection.sids :
                t1 # t2 => wrap_with_plugin(registry'[t1], NAME(t1))
                             # wrap_with_plugin(registry'[t2], NAME(t2))

C3_WireNamesUniqueAcrossOwnersAndNames ==
    []C3_DistinctOwnerOrName /\ [][C3_MergedTogether]_vars

\* Types 1 and 2 share their logical name and have different owners.
C3_Witness == Resolved(1) /\ Resolved(2) /\ registry[1] # registry[2]

\* C4: two events of one logical name owned by different plugin identifiers
\* have different wire-names, and an emission of one is not delivered to a
\* listener subscribed for the other.
C4_NoCrossDelivery ==
    [][\A t1, t2 \in Types :
          (/\ t1 # t2 /\ NAME(t1) = NAME(t2)
           /\ Resolved(t1) /\ Resolved(t2)
           /\ registry[t1] # registry[t2])
          => /\ WireName(t1) # WireName(t2)
             /\ EmitOn(t1) => \A d \in result'.deliveries : listeners[d.id].ty # t2]_vars

\* C6: a dispatch operation on an event type that is not in the registry
\* aborts with a diagnostic that names the event, registry created or not.
C6_UnmergedDispatchNamesEvent ==
    [][\A t \in Types :
          (~Resolved(t) /\ DispatchOn(t))
            => (result'.outcome = "panic" /\ result'.diag.arg = NAME(t))]_vars

\* C6, amended: such a dispatch operation aborts without subscribing or
\* delivering; its diagnostic names the event when the registry exists, and is
\* the registry-not-found message, which names no event, when it does not.
C6_UnmergedDispatchAborts ==
    [][\A t \in Types :
          (~Resolved(t) /\ DispatchOn(t))
            => /\ result'.outcome = "panic"
               /\ result'.deliveries = {}
               /\ listeners' = listeners
               /\ result'.diag = IF managed
                                 THEN [fmt |-> MsgNotFound, arg |-> NAME(t)]
                                 ELSE [fmt |-> MsgNoRegistry, arg |-> <<>>]]_vars

\* A dispatch on type 3 aborted while the registry held other types.
C6_Witness ==
    /\ managed /\ DOMAIN registry # {} /\ 3 \notin DOMAIN registry
    /\ result.outcome = "panic"
    /\ result.diag = [fmt |-> MsgNotFound, arg |-> NAME(3)]

\* C9: a delivered emit_all of value v of a merged event type reaches every
\* listener subscribed with listen_any for that type, whose handler gets the
\* listener's identifier and a payload equal to v.
C9_EmitAllReachesListeners ==
    [][\A t \in Types : \A v \in Values(t) :
          (Resolved(t) /\ emit_all(t, v, TRUE))
            => \A id \in DOMAIN listeners :
                  (listeners[id].ty = t /\ ~listeners[id].once)
                    => [id |-> id, outcome |-> "handled", payload |-> v]
                          \in result'.deliveries]_vars

\* C10: every dispatch operation on an event owned by the host application
\* uses the logical name as wire-name.
C10_HostWireNameIsLogicalName ==
    [][\A t \in Types :
          (Resolved(t) /\ registry[t] = EventRegistryMeta(None))
            => \/ /\ result'.outcome # "panic"
                  /\ result'.wire = NAME(t)
                  /\ \A id \in DOMAIN listeners' \ DOMAIN listeners :
                        listeners'[id].wire = NAME(t)
                  /\ \A d \in result'.deliveries :
                        d.id \in DOMAIN listeners /\ listeners[d.id].wire = NAME(t)
               \/ ~DispatchOn(t)]_vars

\* An emission of host-owned type 1 was delivered under the wire-name "u".
C10_Witness ==
    /\ Resolved(1) /\ registry[1] = EventRegistryMeta(None)
    /\ result.wire = <<"u">>
    /\ result.value.k = "newtype_string"
    /\ result.deliveries # {}

\* C11: the wire-name of an event owned by a named plugin is the plugin name,
\* the separator ":" and the logical name, in this order, and depends on
\* nothing else: every dispatch operation on such an event type succeeds in
\* resolving it, hands exactly this name to the framework, and subscribes
\* under it.
C11_PluginWireNameIsPrefixed ==
    [][\A t \in Types :
          (Resolved(t) /\ registry[t].plugin_name.some)
            => \/ /\ result'.outcome # "panic"
                  /\ result'.wire = registry[t].plugin_name.name \o <<":">> \o NAME(t)
                  /\ \A id \in DOMAIN listeners' \ DOMAIN listeners :
                        listeners'[id].wire =
                            registry[t].plugin_name.name \o <<":">> \o NAME(t)
               \/ ~DispatchOn(t)]_vars

\* Event type 3 (logical name e) merged for plugin p was emitted under p:e
\* and reached a listener.
C11_Witness ==
    /\ Resolved(3) /\ registry[3] = EventRegistryMeta(Some(<<"p">>))
    /\ result.wire = <<"p", ":", "e">>
    /\ result.value.k = "unit"
    /\ result.deliveries # {}

\* C12: the adapter of a listener, given one raw delivery, uses the null
\* structured value when the payload text does not parse; when the
\* structured value does not deserialize into the listener's event type the
\* invocation aborts and the handler is not invoked; otherwise the handler
\* is invoked exactly once, with the typed payload.  So a unit event's
\* handler runs for the text null and for a malformed text, and a string
\* event's handler runs only for a quoted string, which it receives.
C12_AdapterOutcome ==
    [][\A id \in DOMAIN listeners, raw \in RawPayloads :
          (result'.raw = raw /\ deliver(id, raw)) =>
            LET unit == KIND(listeners[id].ty) = "unit"
                quoted == {s \in Strings : raw = <<"\"">> \o s \o <<"\"">>}
                nullish == raw = <<"n", "u", "l", "l">> \/ raw = <<"{">>
                fits == IF unit THEN nullish ELSE quoted # {}
            IN  /\ Cardinality(result'.deliveries) = 1
                /\ (result'.outcome = "panic") = ~fits
                /\ \A d \in result'.deliveries :
                      /\ d.id = id
                      /\ d.outcome = (IF fits THEN "handled" ELSE "panic")
                      /\ d.payload =
                            (IF ~fits THEN NoValue
                             ELSE IF unit THEN [k |-> "unit", s |-> <<>>]
                             ELSE [k |-> "newtype_string",
                                   s |-> CHOOSE s \in quoted : TRUE])]_vars

\* A malformed payload was delivered to a listener of the unit event, and
\* its handler was invoked with the unit value.
C12_Witness ==
    /\ result.raw = <<"{">>
    /\ \E d \in result.deliveries : d.outcome = "handled" /\ d.payload.k = "unit"

C14_EmitFailureIsRecoverable ==
    [][\A t \in Types :
          /\ \* an emission that returns ok was delivered, one that returns
             \* err was not and changed nothing; both resolved the owner
             ( result'.outcome # "panic" /\ result'.value \in Values(t) )
               => \/ /\ Resolved(t)
                     /\ result'.outcome = "err" =>
                           /\ result'.deliveries = {}
                           /\ listeners' = listeners
                           /\ registry' = registry /\ managed' = managed
                  \/ ~Emit(t, result'.value, result'.outcome = "ok")
          /\ \* no emission of a resolvable event aborts, whether or not the
             \* framework delivers it (an aborting emission leaves no value,
             \* so any value of the type stands for all)
             ( /\ result'.outcome = "panic" /\ building = "none" /\ Resolved(t) )
               => \A d \in BOOLEAN : ~Emit(t, CHOOSE v \in Values(t) : TRUE, d)]_vars

\* An emission of a resolvable event failed in the framework while a
\* listener was subscribed under its wire-name, and the caller got an error
\* result.
C14_Witness ==
    /\ result.outcome = "err"
    /\ result.value # NoValue
    /\ \E id \in DOMAIN listeners : listeners[id].wire = result.wire

C19_AbortedRegisterLeavesCollection ==
    /\ [](Cardinality(collection.sids) = Cardinality(collection.names))
    /\ [][\A t \in Types :
            (register(t) /\ result'.outcome = "panic") => collection' = collection]_vars

\* C17: the registry only grows: a type id that is in the registry is in it
\* after every step, and an event type whose dispatch resolves (the registry
\* is managed and holds its type id) still resolves after every step.
C17_RegistryOnlyGrows ==
    [][\A t \in Types :
          /\ t \in DOMAIN registry => t \in DOMAIN registry'
          /\ Resolved(t) => Resolved(t)']_vars

\* Two merges have happened and the entry of the first is still there: types
\* 1 and 3 resolve, with owners that only separate merges can give them.
C17_Witness ==
    /\ Resolved(1) /\ Resolved(3) /\ registry[1] # registry[3]
    /\ result.outcome = "ok" /\ result.deliveries # {}

\* C16: the registry's lock is a read/write lock.  At most one merge holds
\* it, and then no lookup does; the guards out are exactly those of the
\* merges and lookups in progress; a lookup waiting for the lock gets it
\* whenever no merge holds it, whatever other lookups hold; and at the
\* moment a lookup reads the map every merge has written none or all of its
\* collection's entries.
C16_Guards ==
    /\ Cardinality(rw.writers) <= 1
    /\ rw.writers # {} => rw.readers = {}
    /\ rw.writers = {w \in Mergers : mergers[w].pc = "extend"}
    /\ rw.readers = {d \in Dispatchers : lookups[d].pc = "get"}

C16_ReadersShare ==
    \A d \in Dispatchers :
        (lookups[d].pc = "read" /\ rw.writers = {}) => ENABLED lookup_read(d)

C16_PartlyMerged(w) ==
    mergers[w].todo # {} /\ mergers[w].todo # mergers[w].sids

C16_ReadWriteLockDiscipline ==
    /\ [](C16_Guards /\ C16_ReadersShare)
    /\ [][\A d \in Dispatchers :
            lookup_get(d) => \A w \in Mergers : ~C16_PartlyMerged(w)]_vars

\* A merge has written one of its collection's two entries and holds the
\* lock, while a lookup is waiting for it.
C16_Witness ==
    \E w \in Mergers, d \in Dispatchers :
        /\ C16_PartlyMerged(w)
        /\ w \in rw.writers
        /\ lookups[d].pc = "read"

\* C18: no emit, listen or once operation changes the registry, whether it
\* succeeds, returns an error or aborts; and an aborted dispatch prevents
\* nothing: a merge succeeds in whatever state it is made, and a dispatch
\* made right after an aborted one resolves every event type that is in the
\* registry.
C18_Aborted ==
    result.outcome = "panic" /\ result.diag.fmt \in {MsgNoRegistry, MsgNotFound}

C18_DispatchReadsOnly ==
    [][/\ \A t \in Types :
             /\ (registry' # registry \/ managed' # managed \/ instance' # instance)
                   => ~DispatchOn(t)
             /\ (C18_Aborted /\ result'.outcome = "panic" /\ Resolved(t))
                   => ~DispatchOn(t)
       /\ Merge => /\ result'.outcome = "ok"
                   /\ collection.sids \subseteq DOMAIN registry']_vars

\* A dispatch has just aborted on a type id that is not in the registry,
\* while the registry is managed and holds other entries.
C18_Witness ==
    /\ managed /\ registry # EmptyMap
    /\ result.outcome = "panic" /\ result.diag.fmt = MsgNotFound

====
